---- MODULE Spec2Model ----
(***************************************************************************)
(* A model of the RSVP reader of src/src/App.jsx: the App shell (library   *)
(* view / reader view), the Reader component's session state, its          *)
(* persisted progress and settings, the asynchronous book parse and the    *)
(* single-timeout playback loop.                                           *)
(*                                                                         *)
(* React semantics assumed: state updates made in one event handler, one   *)
(* timer callback or one continuation of an async function are batched     *)
(* into one render, and the effects of that render (cleanup of the         *)
(* previous effect, then the effect) run before the next event is          *)
(* handled.  One action of the model is therefore one handler together     *)
(* with the render and the effects it causes.  The one interval the model  *)
(* opens is the one between a timer callback, whose update React queues    *)
(* for a later task, and the render of that update (TickQueued,            *)
(* RenderQueued); Tick is the case in which nothing is handled in between. *)
(***************************************************************************)
EXTENDS Integers, Sequences, FiniteSets, TLC

VARIABLES
  view,         \* App: 'library' | 'reader'
  activeBook,   \* App: id of the book handed to the Reader
  words,        \* Reader: the token stream
  toc,          \* Reader: chapter map, a sequence of [label, index]
  currentIndex, \* Reader: reading position
  isPlaying,    \* Reader: play flag
  wpm,          \* Reader: rate
  altReadingMode, \* Reader: alternate (context) display mode
  bookmarks,    \* Reader: bookmark list
  isLoading,    \* Reader: parse not finished
  timers,       \* the browser's pending timeouts, each with its closure
  timeoutRef,   \* Reader: timeoutRef.current
  hasCleanup,   \* whether the last run of the timer effect returned a cleanup
  queued,       \* React: the timer callbacks whose setCurrentIndex(updater)
                \* is queued and not yet rendered (their closures)
  storage,      \* localStorage 'speedreader-progress-<id>', per book
  settings,     \* localStorage 'speedreader-settings' (.wpm)
  altSetting,   \* localStorage 'speedreader-settings' (.altReadingMode);
                \* FALSE also stands for a record without the field
  parses,       \* parseBook calls in flight
  ended,        \* history: how the last session of each book ended
  sessions,     \* history: the number of sessions opened so far
  op            \* history: the last operation and its argument (for onBack,
                \* the number of timeouts pending when it was called)

vars == <<view, activeBook, words, toc, currentIndex, isPlaying, wpm,
          altReadingMode, bookmarks, isLoading, timers, timeoutRef, hasCleanup,
          queued, storage, settings, altSetting, parses, ended, sessions, op>>

readerVars == <<words, toc, currentIndex, isPlaying, wpm, altReadingMode, bookmarks,
                isLoading>>
timerVars == <<timers, timeoutRef, hasCleanup>>

----------------------------------------------------------------------------
(* Bounds of the model *)

MaxSessions == 2
MaxBookmarks == 1
NavBookmarks == 2
MaxTimerId == 2
NavLen == 10
MaxSpine == 3
MaxTextLen == 3
MaxCoreLen == 15
MaxContextTokens == 5
MaxLineChars == 20

(* Program constants *)

DefaultWpm == 300
WpmStep == 10
MaxWpm == 1000
MinWpm == 0

NullRef == -1
NoSettings == -1
NoStart == -1

----------------------------------------------------------------------------
(* Arithmetic helpers *)

Max(a, b) == IF a >= b THEN a ELSE b

Min(a, b) == IF a <= b THEN a ELSE b

RECURSIVE InsertSorted(_, _)
InsertSorted(s, x) ==
  IF s = <<>> THEN <<x>>
  ELSE IF x < Head(s) THEN <<x>> \o s
  ELSE <<Head(s)>> \o InsertSorted(Tail(s), x)

RECURSIVE SortNum(_)
SortNum(s) ==
  IF s = <<>> THEN <<>>
  ELSE InsertSorted(SortNum(SubSeq(s, 1, Len(s) - 1)), s[Len(s)])

Includes(s, x) == \E i \in 1..Len(s) : s[i] = x

RECURSIVE Dedupe(_)
Dedupe(s) ==
  IF s = <<>> THEN <<>>
  ELSE LET front == Dedupe(SubSeq(s, 1, Len(s) - 1))
       IN IF Includes(front, s[Len(s)]) THEN front ELSE Append(front, s[Len(s)])

----------------------------------------------------------------------------
(* Text.  A text and a token are sequences of characters, a character is a *)
(* one-character string; the characters outside ASCII that the regular     *)
(* expressions of the code name are written by their names.                *)

EmDash == "EMDASH"
EnDash == "ENDASH"
Ellipsis == "ELLIPSIS"
RightSingleQuote == "RSQUO"
RightDoubleQuote == "RDQUO"
RightGuillemet == "RAQUO"

(* [A-Za-z0-9] *)
AlnumChars ==
  {"a", "b", "c", "d", "e", "f", "g", "h", "i", "j", "k", "l", "m", "n", "o",
   "p", "q", "r", "s", "t", "u", "v", "w", "x", "y", "z",
   "A", "B", "C", "D", "E", "F", "G", "H", "I", "J", "K", "L", "M", "N", "O",
   "P", "Q", "R", "S", "T", "U", "V", "W", "X", "Y", "Z",
   "0", "1", "2", "3", "4", "5", "6", "7", "8", "9"}

(* [A-Za-z0-9'’\-], the class of the characters that continue a core *)
CoreChars == AlnumChars \cup {"'", RightSingleQuote, "-"}

(* [—–] *)
DashChars == {EmDash, EnDash}

(* ["'”’)\]\}»], the class normalizeTrailingForPause strips *)
CloserChars == {"\"", "'", RightDoubleQuote, RightSingleQuote, ")", "]", "}", RightGuillemet}

(* [.?!…] *)
SentenceChars == {".", "?", "!", Ellipsis}

(* [:;] *)
ColonChars == {":", ";"}

(* \s *)
SpaceChars == {" ", "\n", "\t"}

HasAlnum(s) == \E i \in 1..Len(s) : s[i] \in AlnumChars

(* the index of the first alphanumeric character from i on, 0 if none *)
RECURSIVE FirstAlnum(_, _)
FirstAlnum(word, i) ==
  IF i > Len(word) THEN 0
  ELSE IF word[i] \in AlnumChars THEN i
  ELSE FirstAlnum(word, i + 1)

(* the last index of the longest run of characters of cls that starts at   *)
(* i; i - 1 when the run is empty                                          *)
RECURSIVE RunEnd(_, _, _)
RunEnd(s, i, cls) ==
  IF i <= Len(s) /\ s[i] \in cls THEN RunEnd(s, i + 1, cls) ELSE i - 1

(* the same for the characters outside cls *)
RECURSIVE RunEndNot(_, _, _)
RunEndNot(s, i, cls) ==
  IF i <= Len(s) /\ s[i] \notin cls THEN RunEndNot(s, i + 1, cls) ELSE i - 1

(* Faulty variant of SplitWord: group 2 may start with an apostrophe *)
SplitWordApostropheCore(word) ==
  LET a == FirstAlnum(word, 1)
      f == IF a > 1 /\ word[a - 1] = "'" THEN a - 1 ELSE a
      e == RunEnd(word, f, CoreChars)
  IN IF f = 0 \/ HasAlnum(SubSeq(word, e + 1, Len(word)))
     THEN [leading |-> <<>>, core |-> word, trailing |-> <<>>]
     ELSE [leading |-> SubSeq(word, 1, f - 1),
           core |-> SubSeq(word, f, e),
           trailing |-> SubSeq(word, e + 1, Len(word))]

(* Faulty variant of SplitWord: group 2 takes alphanumeric characters only *)
SplitWordAlnumCore(word) ==
  LET f == FirstAlnum(word, 1)
      e == RunEnd(word, f, AlnumChars)
  IN IF f = 0 \/ HasAlnum(SubSeq(word, e + 1, Len(word)))
     THEN [leading |-> <<>>, core |-> word, trailing |-> <<>>]
     ELSE [leading |-> SubSeq(word, 1, f - 1),
           core |-> SubSeq(word, f, e),
           trailing |-> SubSeq(word, e + 1, Len(word))]

(* Faulty variant of SplitWord: the trailing fragment is lost *)
SplitWordDropsTrailing(word) ==
  LET f == FirstAlnum(word, 1)
      e == RunEnd(word, f, CoreChars)
  IN IF f = 0 \/ HasAlnum(SubSeq(word, e + 1, Len(word)))
     THEN [leading |-> <<>>, core |-> word, trailing |-> <<>>]
     ELSE [leading |-> SubSeq(word, 1, f - 1),
           core |-> SubSeq(word, f, e),
           trailing |-> <<>>]

(* splitWord.  The expression matches exactly when the word has an         *)
(* alphanumeric character and none after the longest run of core           *)
(* characters that starts at the first one: group 1 is the prefix before   *)
(* the first alphanumeric character, group 2 that run, group 3 the rest.   *)
SplitWord(word) ==
  LET f == FirstAlnum(word, 1)
      e == RunEnd(word, f, CoreChars)
  IN IF f = 0 \/ HasAlnum(SubSeq(word, e + 1, Len(word)))
     THEN [leading |-> <<>>, core |-> word, trailing |-> <<>>]
     ELSE [leading |-> SubSeq(word, 1, f - 1),
           core |-> SubSeq(word, f, e),
           trailing |-> SubSeq(word, e + 1, Len(word))]

(* Faulty variant of GetORPIndex: the thresholds are exclusive *)
GetORPIndexExclusive(word) ==
  LET length == Len(word)
  IN IF length < 1 THEN 0
     ELSE IF length < 5 THEN 1
     ELSE IF length < 9 THEN 2
     ELSE IF length < 13 THEN 3
     ELSE 4

(* getORPIndex *)
GetORPIndex(word) ==
  LET length == Len(word)
  IN IF length <= 1 THEN 0
     ELSE IF length <= 5 THEN 1
     ELSE IF length <= 9 THEN 2
     ELSE IF length <= 13 THEN 3
     ELSE 4

(* normalizeTrailingForPause: trailing.replace(/["'”’)\]\}»]+$/g, "") *)
RECURSIVE NormalizeTrailingForPause(_)
NormalizeTrailingForPause(trailing) ==
  IF trailing # <<>> /\ trailing[Len(trailing)] \in CloserChars
  THEN NormalizeTrailingForPause(SubSeq(trailing, 1, Len(trailing) - 1))
  ELSE trailing

(* /[cls]+$/.test(s) *)
EndsWith(s, cls) == s # <<>> /\ s[Len(s)] \in cls

(* /—|–|--/.test(word) *)
HasDash(word) ==
  \/ \E i \in 1..Len(word) : word[i] \in DashChars
  \/ \E i \in 1..(Len(word) - 1) : word[i] = "-" /\ word[i + 1] = "-"

(* the multipliers, in tenths *)
SentencePause == 26
ColonPause == 19
CommaPause == 14
DashPause == 16
NoPause == 10

(* Faulty variant of GetPauseMultiplier: closing quotes are not stripped *)
GetPauseMultiplierNoStrip(word) ==
  LET cleanedTrailing == SplitWord(word).trailing
  IN IF EndsWith(cleanedTrailing, SentenceChars) THEN SentencePause
     ELSE IF EndsWith(cleanedTrailing, ColonChars) THEN ColonPause
     ELSE IF EndsWith(cleanedTrailing, {","}) THEN CommaPause
     ELSE IF HasDash(word) THEN DashPause
     ELSE NoPause

(* getPauseMultiplier, in tenths *)
GetPauseMultiplier(word) ==
  LET cleanedTrailing == NormalizeTrailingForPause(SplitWord(word).trailing)
  IN IF EndsWith(cleanedTrailing, SentenceChars) THEN SentencePause
     ELSE IF EndsWith(cleanedTrailing, ColonChars) THEN ColonPause
     ELSE IF EndsWith(cleanedTrailing, {","}) THEN CommaPause
     ELSE IF HasDash(word) THEN DashPause
     ELSE NoPause

MsPerMinute == 60000

(* words[currentIndex] || "" *)
CurrentWord(ws, idx) == IF idx \in 0..(Len(ws) - 1) THEN ws[idx + 1] ELSE <<>>

(* 60000 / 0 in JavaScript *)
Infinity == -1

(* (60000 / wpm) * getPauseMultiplier(current).  The rates of the model    *)
(* divide 6000 times every multiplier, so the quotient is exact.           *)
DelayMs(word, rate) ==
  IF rate = 0 THEN Infinity
  ELSE (MsPerMinute * GetPauseMultiplier(word)) \div (rate * 10)

(* the index of the first character of cls, 0 if there is none *)
FirstIn(s, cls) ==
  IF \E i \in 1..Len(s) : s[i] \in cls
  THEN CHOOSE i \in 1..Len(s) : s[i] \in cls /\ \A j \in 1..(i - 1) : s[j] \notin cls
  ELSE 0

(* the first index of the longest run of characters of cls that ends at i; *)
(* i + 1 when the run is empty                                             *)
RunStart(s, i, cls) ==
  CHOOSE k \in 1..(i + 1) :
    /\ \A m \in k..i : s[m] \in cls
    /\ k = 1 \/ s[k - 1] \notin cls

(* .replace(/([A-Za-z0-9])([—–])([A-Za-z0-9])/g, "$1$2 $3"): the matches *)
(* are found from left to right and do not overlap, so the character after *)
(* a replaced dash is not the left neighbour of the next match.  d is the  *)
(* next dash.                                                              *)
RECURSIVE SplitDashes(_)
SplitDashes(s) ==
  LET d == FirstIn(s, DashChars)
  IN IF d = 0 THEN s
     ELSE IF d >= 2 /\ d < Len(s) /\ s[d - 1] \in AlnumChars /\ s[d + 1] \in AlnumChars
     THEN SubSeq(s, 1, d) \o <<" ", s[d + 1]>> \o SplitDashes(SubSeq(s, d + 2, Len(s)))
     ELSE SubSeq(s, 1, d) \o SplitDashes(SubSeq(s, d + 1, Len(s)))

(* .replace(/\s*([—–])\s*/g, " $1 "): a match is a dash with the           *)
(* whitespace right before it and right after it                           *)
RECURSIVE SpaceDashes(_)
SpaceDashes(s) ==
  LET d == FirstIn(s, DashChars)
  IN IF d = 0 THEN s
     ELSE SubSeq(s, 1, RunStart(s, d - 1, SpaceChars) - 1)
          \o <<" ", s[d], " ">>
          \o SpaceDashes(SubSeq(s, RunEnd(s, d + 1, SpaceChars) + 1, Len(s)))

(* .trim() *)
RECURSIVE Trim(_)
Trim(s) ==
  IF s # <<>> /\ s[1] \in SpaceChars THEN Trim(Tail(s))
  ELSE IF s # <<>> /\ s[Len(s)] \in SpaceChars THEN Trim(SubSeq(s, 1, Len(s) - 1))
  ELSE s

(* .split(/\s+/) of a trimmed string; the empty string gives [""] *)
RECURSIVE SplitSpaces(_)
SplitSpaces(s) ==
  LET e == RunEndNot(s, 1, SpaceChars)
  IN IF e = Len(s) THEN <<s>>
     ELSE <<SubSeq(s, 1, e)>>
          \o SplitSpaces(SubSeq(s, RunEnd(s, e + 1, SpaceChars) + 1, Len(s)))

(* Faulty variant of NormalizeWords: keeps only the tokens the expression  *)
(* of splitWord matches                                                    *)
NormalizeWordsMatchedOnly(text) ==
  LET normalized == SpaceDashes(SplitDashes(text))
      Matches(word) ==
        LET f == FirstAlnum(word, 1)
        IN f # 0 /\ ~HasAlnum(SubSeq(word, RunEnd(word, f, CoreChars) + 1, Len(word)))
  IN SelectSeq(SplitSpaces(Trim(normalized)), Matches)

(* normalizeWords *)
NormalizeWords(text) ==
  LET normalized == SpaceDashes(SplitDashes(text))
  IN SelectSeq(SplitSpaces(Trim(normalized)),
               LAMBDA word : Len(SplitWord(word).core) > 0)

(* lineWords.join(" ") *)
RECURSIVE Join(_)
Join(ws) ==
  IF ws = <<>> THEN <<>>
  ELSE IF Len(ws) = 1 THEN ws[1]
  ELSE ws[1] \o <<" ">> \o Join(Tail(ws))

(* the limits of contextLines *)
MinLineChars == 18
LinesBefore == 3
LinesAfter == 3
DefaultLineChars == 42

(* Faulty variant of FillLine: the separating space is not counted *)
RECURSIVE FillLineNoSpace(_, _, _, _, _, _)
FillLineNoSpace(ws, at, step, maxChars, lineWords, len) ==
  IF at < 0 \/ at >= Len(ws) THEN [lineWords |-> lineWords, at |-> at]
  ELSE LET w == ws[at + 1]
           add == Len(w)
       IN IF len + add > maxChars /\ len > 0
          THEN [lineWords |-> lineWords, at |-> at]
          ELSE FillLineNoSpace(ws, at + step, step, maxChars,
                               IF step < 0 THEN <<w>> \o lineWords ELSE Append(lineWords, w),
                               len + add)

(* The while loop that fills one line of contextLines, walking from index  *)
(* at: backwards with unshift (step -1) or forwards with push (step 1).    *)
RECURSIVE FillLine(_, _, _, _, _, _)
FillLine(ws, at, step, maxChars, lineWords, len) ==
  IF at < 0 \/ at >= Len(ws) THEN [lineWords |-> lineWords, at |-> at]
  ELSE LET w == ws[at + 1]
           add == Len(w) + (IF len > 0 THEN 1 ELSE 0)
       IN IF len + add > maxChars /\ len > 0
          THEN [lineWords |-> lineWords, at |-> at]
          ELSE FillLine(ws, at + step, step, maxChars,
                        IF step < 0 THEN <<w>> \o lineWords ELSE Append(lineWords, w),
                        len + add)

(* the for loop over the lines of one direction *)
RECURSIVE ContextSide(_, _, _, _, _, _, _)
ContextSide(ws, at, step, maxChars, i, count, lines) ==
  IF ~(i < count /\ at >= 0 /\ at < Len(ws)) THEN lines
  ELSE LET line == FillLine(ws, at, step, maxChars, <<>>, 0)
       IN ContextSide(ws, line.at, step, maxChars, i + 1, count,
                      IF Len(line.lineWords) > 0
                      THEN Append(lines, [text |-> Join(line.lineWords), distance |-> i + 1])
                      ELSE lines)

Reverse(s) == [i \in 1..Len(s) |-> s[Len(s) + 1 - i]]

(* Faulty variant of ContextLines: before.reverse() is missing *)
ContextLinesNoReverse(altMode, ws, idx, contextLineChars) ==
  IF ~altMode \/ Len(ws) = 0 THEN <<>>
  ELSE LET maxChars == Max(MinLineChars, contextLineChars)
       IN [before |-> ContextSide(ws, idx - 1, -1, maxChars, 0, LinesBefore, <<>>),
           after |-> ContextSide(ws, idx + 1, 1, maxChars, 0, LinesAfter, <<>>)]

(* Faulty variant of ContextLines: the walks start at the current token *)
ContextLinesFromCurrent(altMode, ws, idx, contextLineChars) ==
  IF ~altMode \/ Len(ws) = 0 THEN <<>>
  ELSE LET maxChars == Max(MinLineChars, contextLineChars)
       IN [before |-> Reverse(ContextSide(ws, idx, -1, maxChars, 0, LinesBefore, <<>>)),
           after |-> ContextSide(ws, idx, 1, maxChars, 0, LinesAfter, <<>>)]

(* contextLines (useMemo), for a position whose left neighbour is inside   *)
(* the stream.  The result for the alternate mode switched off or an empty *)
(* stream is the empty array.                                              *)
ContextLines(altMode, ws, idx, contextLineChars) ==
  IF ~altMode \/ Len(ws) = 0 THEN <<>>
  ELSE LET maxChars == Max(MinLineChars, contextLineChars)
       IN [before |-> Reverse(ContextSide(ws, idx - 1, -1, maxChars, 0, LinesBefore, <<>>)),
           after |-> ContextSide(ws, idx + 1, 1, maxChars, 0, LinesAfter, <<>>)]

(* The first word the 'before' loop of contextLines reads, words[leftIdx], *)
(* is undefined when the position is beyond the stream's length, and       *)
(* reading its length throws.                                              *)
ReadsPastEnd(ws, idx) == Len(ws) > 0 /\ idx - 1 >= Len(ws)

(* The alternate display of the render: contextLines.before.map(...) and   *)
(* contextLines.after.map(...).  The empty array has neither property, so  *)
(* the call of map on undefined throws; so does contextLines itself when   *)
(* it reads past the end.                                                  *)
RenderThrows(altMode, ws, idx) ==
  altMode /\ (\/ DOMAIN ContextLines(altMode, ws, idx, DefaultLineChars) # {"before", "after"}
              \/ ReadsPastEnd(ws, idx))

----------------------------------------------------------------------------
(* The library: the books whose metadata and content blobs are persisted.  *)
(* Book 1 is a text file of one token, book 2 a text file of whitespace    *)
(* only (normalizeWords returns []), book 3 an EPUB of two spine sections, *)
(* both matched by the navigation tree.                                    *)

Library == {1, 2, 3}

BookType(b) == IF b <= 2 THEN "text" ELSE "epub"

(* the text of a text file after stripMarkdown *)
BookText(b) == IF b = 1 THEN <<"a", ".">> ELSE <<" ">>

TextWords(b) == NormalizeWords(BookText(b))

(* The k-th token of spine section i: no two sections share a token. *)
SectionWord(i, k) == [j \in 1..i |-> "e"] \o [j \in 1..k |-> "x"]

(* what normalizeWords returns for section i when it holds n tokens *)
SectionTokens(i, n) == [k \in 1..n |-> SectionWord(i, k)]

(* the label of the navigation entry that findToc matches to section i *)
ChapterLabel(i) == <<"Ch1", "Ch2", "Ch3", "Ch4", "Ch5", "Ch6">>[i]

(* The EPUBs the extraction is checked on besides book 3: every spine of   *)
(* MaxSpine sections, each holding no, one or two tokens (SectionSizes     *)
(* cases) and each matched by the navigation tree or not.  The book id     *)
(* numbers the spines: its digits to the base SectionKinds are the         *)
(* sections.                                                               *)
FirstEpub == 4
SectionSizes == 3
SectionKinds == 6

EpubBooks == FirstEpub..(FirstEpub + SectionKinds ^ MaxSpine - 1)

(* the books an extraction is run on *)
ExtractBooks == Library \cup EpubBooks

Section(b, i) ==
  LET d == ((b - FirstEpub) \div (SectionKinds ^ (i - 1))) % SectionKinds
  IN [tokens |-> SectionTokens(i, d % SectionSizes),
      label |-> IF d >= SectionSizes THEN ChapterLabel(i) ELSE ""]

(* spine.spineItems with, for each item, the tokens of its document and    *)
(* the label of its findToc match ("" for null)                            *)
Spine(b) ==
  IF b \in Library
  THEN << [tokens |-> SectionTokens(1, 1), label |-> ChapterLabel(1)],
          [tokens |-> SectionTokens(2, 1), label |-> ChapterLabel(2)] >>
  ELSE [i \in 1..MaxSpine |-> Section(b, i)]

Failed == [ok |-> FALSE, words |-> <<>>, toc |-> <<>>]

(* Faulty variant of SpineLoop: the first section that fails to load ends  *)
(* the extraction                                                          *)
RECURSIVE SpineLoopStops(_, _, _, _, _, _)
SpineLoopStops(spine, loaded, i, fullWordList, tocItems, currentWordIndex) ==
  IF i > Len(spine) \/ i \notin loaded
  THEN IF Len(fullWordList) = 0
       THEN Failed
       ELSE [ok |-> TRUE, words |-> fullWordList, toc |-> tocItems]
  ELSE LET item == spine[i]
           tocNext == IF item.label # ""
                      THEN Append(tocItems, [label |-> item.label, index |-> currentWordIndex])
                      ELSE tocItems
       IN SpineLoopStops(spine, loaded, i + 1, fullWordList \o item.tokens, tocNext,
                         currentWordIndex + Len(item.tokens))

(* parseEpub's loop over spine.spineItems.  loaded is the set of sections  *)
(* whose item.load() resolves; label "" stands for findToc returning null. *)
RECURSIVE SpineLoop(_, _, _, _, _, _)
SpineLoop(spine, loaded, i, fullWordList, tocItems, currentWordIndex) ==
  IF i > Len(spine)
  THEN IF Len(fullWordList) = 0
       THEN Failed
       ELSE [ok |-> TRUE, words |-> fullWordList, toc |-> tocItems]
  ELSE LET item == spine[i]
           tocNext == IF item.label # ""
                      THEN Append(tocItems, [label |-> item.label, index |-> currentWordIndex])
                      ELSE tocItems
       IN IF i \in loaded /\ Len(item.tokens) > 0
          THEN SpineLoop(spine, loaded, i + 1, fullWordList \o item.tokens, tocNext,
                         currentWordIndex + Len(item.tokens))
          ELSE SpineLoop(spine, loaded, i + 1, fullWordList, tocNext, currentWordIndex)

ParseEpub(spine, loaded) == SpineLoop(spine, loaded, 1, <<>>, <<>>, 0)

(* parseText: the FileReader either delivers the text or errors. *)
ParseText(b) == [ok |-> TRUE, words |-> TextWords(b), toc |-> <<>>]

(* What the extraction of book b can produce. *)
ParseOutcomes(b) ==
  IF BookType(b) = "epub"
  THEN {ParseEpub(Spine(b), loaded) : loaded \in SUBSET (1..Len(Spine(b)))} \cup {Failed}
  ELSE {ParseText(b), Failed}

(* ParseOutcomes as a table, computed once *)
OutcomeTable == [b \in ExtractBooks |-> ParseOutcomes(b)]

----------------------------------------------------------------------------
(* Persisted progress: what localStorage holds under the book's key. *)

Missing == [kind |-> "missing", currentIndex |-> 0, bookmarks |-> <<>>]

Corrupt == [kind |-> "corrupt", currentIndex |-> 0, bookmarks |-> <<>>]

ProgressRecord(idx, bm) == [kind |-> "record", currentIndex |-> idx, bookmarks |-> bm]

(* The records found at start-up: none, unparsable text, or a record left  *)
(* by an earlier extraction of the book that was longer.                   *)
InitialProgress == {Missing, Corrupt, ProgressRecord(3, <<>>)}

----------------------------------------------------------------------------
(* Navigation and scheduling, as pure functions *)

(* Faulty variant of ChapterStarts: index 0 is not added *)
ChapterStartsNoZero(t) ==
  IF Len(t) = 0 THEN <<>>
  ELSE Dedupe(SortNum([i \in 1..Len(t) |-> t[i].index]))

(* chapterStarts (useMemo) *)
ChapterStarts(t) ==
  IF Len(t) = 0 THEN <<>>
  ELSE LET starts == SortNum([i \in 1..Len(t) |-> t[i].index])
           withZero == IF starts[1] # 0 THEN <<0>> \o starts ELSE starts
       IN Dedupe(withZero)

(* Faulty variant of JumpTarget: the upper clamp is the length *)
JumpTargetOffByOne(prev, amount, len) ==
  LET next == prev + amount IN Max(0, Min(len, next))

(* jump's updater *)
JumpTarget(prev, amount, len) ==
  LET next == prev + amount IN Max(0, Min(len - 1, next))

(* Faulty variant of NextStart: a start equal to prev is taken *)
RECURSIVE NextStartInclusive(_, _, _)
NextStartInclusive(starts, prev, i) ==
  IF i > Len(starts) THEN NoStart
  ELSE IF starts[i] >= prev THEN starts[i]
  ELSE NextStartInclusive(starts, prev, i + 1)

(* the for loop of the timer callback: first chapter start > prev *)
RECURSIVE NextStart(_, _, _)
NextStart(starts, prev, i) ==
  IF i > Len(starts) THEN NoStart
  ELSE IF starts[i] > prev THEN starts[i]
  ELSE NextStart(starts, prev, i + 1)

(* Faulty variant of TickUpdater: the next chapter start is taken without  *)
(* the test that prev is the chapter's last token                          *)
TickUpdaterSkipsChapter(prev, len, starts) ==
  IF prev >= len - 1 THEN [index |-> prev, stop |-> TRUE]
  ELSE IF Len(starts) > 1 /\ NextStart(starts, prev, 1) # NoStart
       THEN [index |-> NextStart(starts, prev, 1), stop |-> FALSE]
       ELSE [index |-> prev + 1, stop |-> FALSE]

(* Faulty variant of TickUpdater: the end test is off by one *)
TickUpdaterPastEnd(prev, len, starts) ==
  IF prev >= len THEN [index |-> prev, stop |-> TRUE]
  ELSE [index |-> prev + 1, stop |-> FALSE]

(* the updater the timer callback passes to setCurrentIndex; stop stands   *)
(* for its call of setIsPlaying(false)                                     *)
TickUpdater(prev, len, starts) ==
  IF prev >= len - 1 THEN [index |-> prev, stop |-> TRUE]
  ELSE IF Len(starts) > 1
            /\ NextStart(starts, prev, 1) # NoStart
            /\ prev >= NextStart(starts, prev, 1) - 1
       THEN [index |-> NextStart(starts, prev, 1), stop |-> FALSE]
       ELSE [index |-> prev + 1, stop |-> FALSE]

(* Faulty variant of ToggleBookmark: the new list is not sorted *)
ToggleBookmarkNoSort(bm, idx) ==
  IF Includes(bm, idx)
  THEN SelectSeq(bm, LAMBDA b : b # idx)
  ELSE Append(bm, idx)

(* the bookmark button's onClick *)
ToggleBookmark(bm, idx) ==
  IF Includes(bm, idx)
  THEN SelectSeq(bm, LAMBDA b : b # idx)
  ELSE SortNum(Append(bm, idx))

----------------------------------------------------------------------------
(* Timers *)

TimerIds == 0..MaxTimerId

(* Faulty variant of ClearTimeout: the timeout is never cleared *)
ClearTimeoutForgets(ts, ref) == ts

(* clearTimeout(id): a no-op for an id that is not pending *)
ClearTimeout(ts, ref) == {t \in ts : t.id # ref}

FreeIds(ts, ref) == {i \in TimerIds : i # ref /\ \A t \in ts : t.id # i}

(* setTimeout's return value: an id no pending timer has *)
FreshId(ts, ref) == CHOOSE i \in FreeIds(ts, ref) : \A j \in FreeIds(ts, ref) : i <= j

(* what the callback handed to setTimeout closes over *)
NewTimer(id) ==
  [id |-> id, idx |-> currentIndex', wpm |-> wpm', len |-> Len(words'),
   starts |-> ChapterStarts(toc'), live |-> TRUE,
   ms |-> DelayMs(CurrentWord(words', currentIndex'), wpm')]

(* Faulty variant of TimerDepsChanged: bookmarks among the dependencies *)
TimerDepsWithBookmarks ==
  \/ isPlaying' # isPlaying
  \/ wpm' # wpm
  \/ Len(words') # Len(words)
  \/ currentIndex' # currentIndex
  \/ bookmarks' # bookmarks

(* Faulty variant of TimerDepsChanged: wpm missing from the dependencies *)
TimerDepsNoRate ==
  \/ isPlaying' # isPlaying
  \/ Len(words') # Len(words)
  \/ currentIndex' # currentIndex

(* the dependency list of the timer effect; chapterStarts changes with toc *)
TimerDepsChanged ==
  \/ isPlaying' # isPlaying
  \/ wpm' # wpm
  \/ Len(words') # Len(words)
  \/ currentIndex' # currentIndex

(* Faulty variant of PlaybackOff: the rate is not looked at *)
PlaybackOffIgnoresRate == ~isPlaying' \/ Len(words') = 0

(* the guard of the timer effect: nothing is scheduled *)
PlaybackOff == ~isPlaying' \/ wpm' <= 0 \/ Len(words') = 0

(* The playback effect after a render: the previous run's cleanup, then    *)
(* the effect.  base are the pending timers when the render commits,       *)
(* tocChanged whether setToc was called.                                   *)
TimerEffect(base, tocChanged) ==
  IF ~(tocChanged \/ TimerDepsChanged)
  THEN /\ timers' = base
       /\ UNCHANGED <<timeoutRef, hasCleanup>>
  ELSE LET cleaned == IF hasCleanup THEN ClearTimeout(base, timeoutRef) ELSE base
       IN IF PlaybackOff
          THEN /\ timers' = ClearTimeout(cleaned, timeoutRef)
               /\ timeoutRef' = timeoutRef
               /\ hasCleanup' = FALSE
          ELSE /\ FreeIds(cleaned, timeoutRef) # {}
               /\ timers' = cleaned \cup {NewTimer(FreshId(cleaned, timeoutRef))}
               /\ timeoutRef' = FreshId(cleaned, timeoutRef)
               /\ hasCleanup' = TRUE

(* the dependency list of the save-progress effect (book.id is fixed) *)
SaveDepsChanged ==
  \/ currentIndex' # currentIndex
  \/ bookmarks' # bookmarks
  \/ Len(words') # Len(words)

(* the save-progress effect *)
SaveProgress ==
  storage' = IF Len(words') = 0 \/ ~SaveDepsChanged
             THEN storage
             ELSE [storage EXCEPT ![activeBook] = ProgressRecord(currentIndex', bookmarks')]

(* the save-settings effect *)
SaveSettings == settings' = wpm' /\ altSetting' = altReadingMode'

(* The render that follows a handler of a mounted Reader, which leaves no  *)
(* update queued, and its effects.                                         *)
AfterRender(base, tocChanged) ==
  /\ queued' = {}
  /\ SaveSettings
  /\ SaveProgress
  /\ TimerEffect(base, tocChanged)

----------------------------------------------------------------------------
(* The state machine *)

NoEnd == [valid |-> FALSE, currentIndex |-> 0, bookmarks |-> <<>>]

Op(name, arg) == [name |-> name, arg |-> arg]

(* useState initial values of Reader *)
ReaderInitial ==
  /\ words' = <<>>
  /\ toc' = <<>>
  /\ currentIndex' = 0
  /\ isPlaying' = FALSE
  /\ bookmarks' = <<>>
  /\ isLoading' = TRUE

Init ==
  /\ view = "library"
  /\ activeBook = 0
  /\ words = <<>>
  /\ toc = <<>>
  /\ currentIndex = 0
  /\ isPlaying = FALSE
  /\ wpm = DefaultWpm
  /\ altReadingMode = FALSE
  /\ bookmarks = <<>>
  /\ isLoading = TRUE
  /\ timers = {}
  /\ timeoutRef = NullRef
  /\ hasCleanup = FALSE
  /\ queued = {}
  /\ \E x \in InitialProgress : storage = [b \in Library |-> x]
  /\ settings = NoSettings
  /\ altSetting = FALSE
  /\ parses = {}
  /\ ended = [b \in Library |-> NoEnd]
  /\ sessions = 0
  /\ op = Op("init", 0)

(* the load-settings effect: if (savedSettings.wpm) setWpm(savedSettings.wpm) *)
MountWpm == IF settings # NoSettings /\ settings # 0 THEN settings ELSE DefaultWpm

(* the load-settings effect:                                               *)
(* if (savedSettings.altReadingMode !== undefined) setAltReadingMode(...)  *)
MountAltMode == altSetting

(* handleOpenBook, then the mount of Reader with its effects and the       *)
(* render of what the load-settings effect set.  When that render throws,  *)
(* React removes the whole tree: the save-settings effect has run once,    *)
(* with the initial values, and the parse just started belongs to no       *)
(* mounted component.                                                      *)
OpenBook(b) ==
  /\ view = "library"
  /\ sessions < MaxSessions
  /\ sessions' = sessions + 1
  /\ activeBook' = b
  /\ ReaderInitial
  /\ wpm' = MountWpm
  /\ altReadingMode' = MountAltMode
  /\ UNCHANGED storage
  /\ timers' = ClearTimeout(timers, NullRef)
  /\ timeoutRef' = NullRef
  /\ hasCleanup' = FALSE
  /\ queued' = {}
  /\ UNCHANGED ended
  /\ op' = Op("openBook", b)
  /\ IF RenderThrows(altReadingMode', words', currentIndex')
     THEN /\ view' = "error"
          /\ settings' = DefaultWpm
          /\ altSetting' = FALSE
          /\ parses' = parses \cup {[book |-> b, live |-> FALSE]}
     ELSE /\ view' = "reader"
          /\ SaveSettings
          /\ parses' = parses \cup {[book |-> b, live |-> TRUE]}

(* Faulty variant of UnmountTimers: the unmount runs no cleanup *)
UnmountTimersKept == timers

(* the pending timeouts after the timer effect's cleanup ran at unmount *)
UnmountTimers == IF hasCleanup THEN ClearTimeout(timers, timeoutRef) ELSE timers

(* The Reader leaves the screen: the timer effect's cleanup runs, and what *)
(* is still in flight belongs to no mounted component.                     *)
Unmount(rest) ==
  /\ view' = "library"
  /\ UNCHANGED activeBook
  /\ ReaderInitial
  /\ wpm' = DefaultWpm
  /\ altReadingMode' = FALSE
  /\ timers' = {[t EXCEPT !.live = FALSE] : t \in UnmountTimers}
  /\ timeoutRef' = NullRef
  /\ hasCleanup' = FALSE
  /\ queued' = {}
  /\ parses' = {[q EXCEPT !.live = FALSE] : q \in rest}
  /\ ended' = IF Len(words) > 0
              THEN [ended EXCEPT ![activeBook] =
                      [valid |-> TRUE, currentIndex |-> currentIndex, bookmarks |-> bookmarks]]
              ELSE ended
  /\ UNCHANGED <<storage, settings, altSetting>>

(* A render of the Reader throws and no error boundary catches it: React   *)
(* removes the whole tree, running the cleanups, and runs no effect of the *)
(* render that failed.  The Reader's variables keep what the render was    *)
(* given.                                                                  *)
RenderError(rest) ==
  /\ view' = "error"
  /\ timers' = {[t EXCEPT !.live = FALSE] : t \in UnmountTimers}
  /\ timeoutRef' = NullRef
  /\ hasCleanup' = FALSE
  /\ queued' = {}
  /\ parses' = {[q EXCEPT !.live = FALSE] : q \in rest}
  /\ UNCHANGED <<storage, settings, altSetting>>

(* onBack from the top bar or the Escape key *)
CloseReader ==
  /\ view = "reader"
  /\ Unmount(parses)
  /\ UNCHANGED sessions
  /\ op' = Op("onBack", Cardinality(timers))

(* Faulty variant of SavedAtRestore: the save-progress effect of the render *)
(* caused by setWords runs before the key is read                          *)
SavedAtRestoreAfterSave(b, r) ==
  IF Len(r.words) > 0 THEN ProgressRecord(currentIndex, bookmarks) ELSE storage[b]

(* The record parseBook gets from localStorage.  setWords, setToc and the   *)
(* read run in one continuation, so no effect of this session has written  *)
(* the key before it is read.  A corrupt record makes JSON.parse throw.    *)
SavedAtRestore(b, r) == storage[b]

(* if (saved.currentIndex) setCurrentIndex(saved.currentIndex) *)
RestoreIndex(saved, cur) ==
  IF saved.kind = "record" /\ saved.currentIndex # 0 THEN saved.currentIndex ELSE cur

(* if (saved.bookmarks) setBookmarks(saved.bookmarks) *)
RestoreBookmarks(saved, cur) ==
  IF saved.kind = "record" THEN saved.bookmarks ELSE cur

(* The continuation of parseBook after the extraction of p.book settled    *)
(* with r: the try block's tail, or the catch block.  A parse whose Reader *)
(* is gone sets no state, but its catch block still calls onBack, which    *)
(* closes the Reader that is mounted then.                                 *)
ParseDone(p, r) ==
  /\ p \in parses
  /\ queued = {}
  /\ r \in OutcomeTable[p.book]
  /\ LET rest == parses \ {p}
         saved == SavedAtRestore(p.book, r)
         ok == r.ok /\ saved.kind # "corrupt"
     IN /\ UNCHANGED sessions
        /\ IF p.live
           THEN IF ok
                THEN /\ words' = r.words
                     /\ toc' = r.toc
                     /\ currentIndex' = RestoreIndex(saved, currentIndex)
                     /\ bookmarks' = RestoreBookmarks(saved, bookmarks)
                     /\ isLoading' = FALSE
                     /\ UNCHANGED <<isPlaying, wpm, altReadingMode>>
                     /\ AfterRender(timers, TRUE)
                     /\ parses' = rest
                     /\ UNCHANGED <<view, activeBook, ended>>
                     /\ op' = Op("parseDone", p.book)
                ELSE /\ Unmount(rest)
                     /\ op' = Op(IF r.ok THEN "restoreAbort" ELSE "parseFailed", p.book)
           ELSE IF ok \/ view # "reader"
                THEN /\ parses' = rest
                     /\ UNCHANGED <<view, activeBook, readerVars, timerVars, queued,
                                    storage, settings, altSetting, ended>>
                     /\ op' = Op("staleParse", p.book)
                ELSE /\ Unmount(rest)
                     /\ op' = Op("staleAbort", p.book)

(* togglePlay: the Space key or the play button *)
TogglePlay ==
  /\ view = "reader"
  /\ queued = {}
  /\ isPlaying' = ~isPlaying
  /\ UNCHANGED <<words, toc, currentIndex, wpm, altReadingMode, bookmarks, isLoading>>
  /\ AfterRender(timers, FALSE)
  /\ UNCHANGED <<view, activeBook, parses, ended, sessions>>
  /\ op' = Op("togglePlay", 0)

(* the Alt reading mode button of the settings panel:                      *)
(* setAltReadingMode(!altReadingMode)                                      *)
ToggleAltMode ==
  /\ view = "reader"
  /\ queued = {}
  /\ altReadingMode' = ~altReadingMode
  /\ UNCHANGED <<words, toc, currentIndex, isPlaying, wpm, bookmarks, isLoading>>
  /\ UNCHANGED <<activeBook, ended, sessions>>
  /\ op' = Op("toggleAltMode", 0)
  /\ IF RenderThrows(altReadingMode', words', currentIndex')
     THEN RenderError(parses)
     ELSE /\ AfterRender(timers, FALSE)
          /\ UNCHANGED <<view, parses>>

(* What React hands an updater of currentIndex as prev: the state of the   *)
(* last render with the updaters queued before it applied.  stop stands    *)
(* for a queued callback's setIsPlaying(false).                            *)
Prev ==
  IF queued = {} THEN [index |-> currentIndex, stop |-> FALSE]
  ELSE LET t == CHOOSE q \in queued : TRUE
       IN TickUpdater(currentIndex, t.len, t.starts)

(* jump(amount): setCurrentIndex(prev => clamp(prev + amount)) *)
Jump(amount) ==
  /\ view = "reader"
  /\ currentIndex' = JumpTarget(Prev.index, amount, Len(words))
  /\ isPlaying' = IF Prev.stop THEN FALSE ELSE isPlaying
  /\ UNCHANGED <<words, toc, wpm, altReadingMode, bookmarks, isLoading>>
  /\ AfterRender(timers, FALSE)
  /\ UNCHANGED <<view, activeBook, parses, ended, sessions>>
  /\ op' = Op("jump", amount)

(* the amounts of the arrow keys and the skip buttons *)
JumpAmounts == {-100, -50, -10, -1, 1, 10, 50, 100}

(* the amounts the session model draws from; the progress bar gives the   *)
(* jumps that clamp                                                       *)
SessionJumpAmounts == {-1, 1}

KeyJump(a) == Jump(a)

(* the progress bar: jump(Math.floor(pct * words.length) - currentIndex) *)
ProgressClick(target) ==
  /\ target \in 0..Len(words)
  /\ Jump(target - currentIndex)

(* a bookmark entry of the TOC modal, which opens only when toc is not empty *)
BookmarkJump(i) ==
  /\ Len(toc) > 0
  /\ i \in 1..Len(bookmarks)
  /\ Jump(bookmarks[i] - currentIndex)

(* a chapter entry of the TOC modal *)
ChapterJump(i) ==
  /\ i \in 1..Len(toc)
  /\ Jump(toc[i].index - currentIndex)

(* the rates the model lets the session take *)
ModelRates == {MinWpm, MinWpm + WpmStep, DefaultWpm}

SetRate(v, name) ==
  /\ view = "reader"
  /\ queued = {}
  /\ v \in ModelRates
  /\ wpm' = v
  /\ UNCHANGED <<words, toc, currentIndex, isPlaying, altReadingMode, bookmarks, isLoading>>
  /\ AfterRender(timers, FALSE)
  /\ UNCHANGED <<view, activeBook, parses, ended, sessions>>
  /\ op' = Op(name, v)

(* the speed slider: setWpm(parseInt(e.target.value)) *)
SetWpm(v) == SetRate(v, "setWpm")

(* ArrowUp: setWpm(w => Math.min(w + 10, 1000)) *)
ArrowUp == SetRate(Min(wpm + WpmStep, MaxWpm), "arrowUp")

(* ArrowDown: setWpm(w => Math.max(w - 10, 0)) *)
ArrowDown == SetRate(Max(wpm - WpmStep, MinWpm), "arrowDown")

(* the bookmark button; cap bounds the number of bookmarks.  The handler   *)
(* reads bookmarks and currentIndex of the last render; a queued update of *)
(* a timer callback is rendered with it.                                   *)
ToggleBookmarkClick(cap) ==
  /\ view = "reader"
  /\ Len(ToggleBookmark(bookmarks, currentIndex)) <= cap
  /\ bookmarks' = ToggleBookmark(bookmarks, currentIndex)
  /\ currentIndex' = Prev.index
  /\ isPlaying' = IF Prev.stop THEN FALSE ELSE isPlaying
  /\ UNCHANGED <<words, toc, wpm, altReadingMode, isLoading>>
  /\ AfterRender(timers, FALSE)
  /\ UNCHANGED <<view, activeBook, parses, ended, sessions>>
  /\ op' = Op("toggleBookmark", currentIndex)

(* A pending timeout fires and its callback calls setCurrentIndex(updater). *)
(* A state update made outside a React event handler is queued and         *)
(* rendered in a later task; until then the handlers of the last render    *)
(* stay in place.                                                          *)
TickQueued(t) ==
  /\ t \in timers
  /\ t.live
  /\ queued = {}
  /\ timers' = timers \ {t}
  /\ queued' = {t}
  /\ UNCHANGED <<readerVars, timeoutRef, hasCleanup, storage, settings, altSetting>>
  /\ UNCHANGED <<view, activeBook, parses, ended, sessions>>
  /\ op' = Op("tickQueued", t.idx)

(* the task in which React renders the queued update *)
RenderQueued ==
  /\ queued # {}
  /\ currentIndex' = Prev.index
  /\ isPlaying' = IF Prev.stop THEN FALSE ELSE isPlaying
  /\ UNCHANGED <<words, toc, wpm, altReadingMode, bookmarks, isLoading>>
  /\ AfterRender(timers, FALSE)
  /\ UNCHANGED <<view, activeBook, parses, ended, sessions>>
  /\ op' = Op("tick", (CHOOSE q \in queued : TRUE).idx)

(* a pending timeout fires and runs its callback, and React renders the    *)
(* update before anything else is handled                                 *)
Tick(t) ==
  /\ t \in timers
  /\ queued = {}
  /\ IF t.live
     THEN LET u == TickUpdater(currentIndex, t.len, t.starts)
          IN /\ currentIndex' = u.index
             /\ isPlaying' = IF u.stop THEN FALSE ELSE isPlaying
             /\ UNCHANGED <<words, toc, wpm, altReadingMode, bookmarks, isLoading>>
             /\ AfterRender(timers \ {t}, FALSE)
             /\ op' = Op("tick", t.idx)
     ELSE /\ timers' = timers \ {t}
          /\ UNCHANGED <<readerVars, timeoutRef, hasCleanup, queued, storage, settings,
                         altSetting>>
          /\ op' = Op("staleTick", t.idx)
  /\ UNCHANGED <<view, activeBook, parses, ended, sessions>>

Next ==
  \/ \E b \in Library : OpenBook(b)
  \/ CloseReader
  \/ \E p \in parses : \E r \in OutcomeTable[p.book] : ParseDone(p, r)
  \/ TogglePlay
  \/ \E a \in SessionJumpAmounts : KeyJump(a)
  \/ \E target \in 0..NavLen : ProgressClick(target)
  \/ \E i \in 1..MaxBookmarks : BookmarkJump(i)
  \/ \E i \in 1..2 : ChapterJump(i)
  \/ \E v \in ModelRates : SetWpm(v)
  \/ ArrowUp
  \/ ArrowDown
  \/ ToggleBookmarkClick(MaxBookmarks)
  \/ \E t \in timers : Tick(t)

Spec == Init /\ [][Next]_vars

----------------------------------------------------------------------------
(* The alternate display: sessions in which the Alt reading mode button is *)
(* used, before and after the extraction has settled, and sessions that    *)
(* are mounted with the mode saved by an earlier one.                      *)

NextAlt ==
  \/ \E b \in Library : OpenBook(b)
  \/ CloseReader
  \/ \E p \in parses : \E r \in OutcomeTable[p.book] : ParseDone(p, r)
  \/ ToggleAltMode
  \/ \E a \in SessionJumpAmounts : KeyJump(a)

SpecAlt == Init /\ [][NextAlt]_vars

----------------------------------------------------------------------------
(* Navigation on one loaded session: the stream lengths the session model  *)
(* does not reach, every jump amount of the code, several bookmarks.       *)

NavLengths == {0, 1, 3, 10, NavLen}

NavWords(n) == [i \in 1..n |-> "w"]

InitNav ==
  /\ view = "reader"
  /\ activeBook = 1
  /\ \E n \in NavLengths : words = NavWords(n)
  /\ toc = <<>>
  /\ currentIndex \in 0..NavLen
  /\ isPlaying = FALSE
  /\ wpm = DefaultWpm
  /\ altReadingMode = FALSE
  /\ bookmarks = <<>>
  /\ isLoading = FALSE
  /\ timers = {}
  /\ timeoutRef = NullRef
  /\ hasCleanup = FALSE
  /\ queued = {}
  /\ storage = [b \in Library |->
                  IF b = activeBook /\ Len(words) > 0
                  THEN ProgressRecord(currentIndex, bookmarks) ELSE Missing]
  /\ settings = wpm
  /\ altSetting = FALSE
  /\ parses = {}
  /\ ended = [b \in Library |-> NoEnd]
  /\ sessions = 1
  /\ op = Op("init", 0)

NextNav ==
  \/ \E a \in JumpAmounts : KeyJump(a)
  \/ \E target \in 0..NavLen : ProgressClick(target)
  \/ ToggleBookmarkClick(NavBookmarks)

SpecNav == InitNav /\ [][NextNav]_vars

----------------------------------------------------------------------------
(* Extraction: a Reader that has just been mounted for one book, a text    *)
(* file of the library or one of the EPUBs of EpubBooks, and whose         *)
(* parseBook then settles.                                                 *)

InitExtract ==
  /\ view = "reader"
  /\ activeBook \in ExtractBooks
  /\ words = <<>>
  /\ toc = <<>>
  /\ currentIndex = 0
  /\ isPlaying = FALSE
  /\ wpm = DefaultWpm
  /\ altReadingMode = FALSE
  /\ bookmarks = <<>>
  /\ isLoading = TRUE
  /\ timers = {}
  /\ timeoutRef = NullRef
  /\ hasCleanup = FALSE
  /\ queued = {}
  /\ storage = [b \in Library \cup {activeBook} |-> Missing]
  /\ settings = wpm
  /\ altSetting = FALSE
  /\ parses = {[book |-> activeBook, live |-> TRUE]}
  /\ ended = [b \in Library \cup {activeBook} |-> NoEnd]
  /\ sessions = 1
  /\ op = Op("openBook", activeBook)

NextExtract ==
  \/ \E p \in parses : \E r \in OutcomeTable[p.book] : ParseDone(p, r)
  \/ \E i \in 1..MaxSpine : ChapterJump(i)

SpecExtract == InitExtract /\ [][NextExtract]_vars

----------------------------------------------------------------------------
(* Playback of an extracted book: the Reader of InitExtract, whose stream  *)
(* and chapter map are what parseBook delivers, then played, paused and    *)
(* moved by the arrow keys and the chapter entries while ticks fire.       *)

NextPlay ==
  \/ \E p \in parses : \E r \in OutcomeTable[p.book] : ParseDone(p, r)
  \/ TogglePlay
  \/ \E a \in SessionJumpAmounts : KeyJump(a)
  \/ \E i \in 1..MaxSpine : ChapterJump(i)
  \/ \E t \in timers : Tick(t)

SpecPlay == InitExtract /\ [][NextPlay]_vars

----------------------------------------------------------------------------
(* Uninterrupted playback: a Reader just mounted for a book whose stored   *)
(* progress is any of InitialProgress.  Commands arrive only while the     *)
(* session is paused and no tick has fired; once playback runs, only the   *)
(* pending timeout acts, and the browser fires every pending timeout.      *)

(* the books played: the library (book 3 has two chapters) and the EPUBs   *)
(* of which at most one section is matched by the navigation tree          *)
RunBooks ==
  Library \cup
  {b \in EpubBooks : Cardinality({i \in 1..MaxSpine : Section(b, i).label # ""}) <= 1}

InitRun ==
  /\ view = "reader"
  /\ activeBook \in RunBooks
  /\ words = <<>>
  /\ toc = <<>>
  /\ currentIndex = 0
  /\ isPlaying = FALSE
  /\ wpm = DefaultWpm
  /\ altReadingMode = FALSE
  /\ bookmarks = <<>>
  /\ isLoading = TRUE
  /\ timers = {}
  /\ timeoutRef = NullRef
  /\ hasCleanup = FALSE
  /\ queued = {}
  /\ \E x \in InitialProgress : storage = [b \in Library \cup {activeBook} |-> x]
  /\ settings = wpm
  /\ altSetting = FALSE
  /\ parses = {[book |-> activeBook, live |-> TRUE]}
  /\ ended = [b \in Library \cup {activeBook} |-> NoEnd]
  /\ sessions = 1
  /\ op = Op("openBook", activeBook)

Paused == ~isPlaying /\ op.name # "tick"

Ticks == \E t \in timers : Tick(t)

NextRun ==
  \/ \E p \in parses : \E r \in OutcomeTable[p.book] : ParseDone(p, r)
  \/ Paused /\ TogglePlay
  \/ Paused /\ \E a \in SessionJumpAmounts : KeyJump(a)
  \/ Paused /\ \E v \in ModelRates : SetWpm(v)
  \/ Ticks

SpecRun == InitRun /\ [][NextRun]_vars /\ WF_vars(Ticks)

----------------------------------------------------------------------------
(* Jumps to an index while playback runs: the Reader of InitRun, with the  *)
(* timer callback and the render of its update as two steps, between which *)
(* a click on a bookmark entry, a chapter entry or the progress bar is     *)
(* handled by the handlers of the last render.                             *)

NextJumpTo ==
  \/ \E p \in parses : \E r \in OutcomeTable[p.book] : ParseDone(p, r)
  \/ TogglePlay
  \/ ToggleBookmarkClick(MaxBookmarks)
  \/ \E t \in timers : TickQueued(t)
  \/ RenderQueued
  \/ \E i \in 1..MaxBookmarks : BookmarkJump(i)
  \/ \E i \in 1..MaxSpine : ChapterJump(i)
  \/ \E target \in 0..NavLen : ProgressClick(target)

SpecJumpTo == InitRun /\ [][NextJumpTo]_vars

----------------------------------------------------------------------------
(* Reading a text: a session whose stream is normalizeWords of a text, for *)
(* every text of up to MaxTextLen characters over one character of each    *)
(* class the regular expressions tell apart, the fixtures of the           *)
(* specification, words of every length up to MaxCoreLen, and streams of   *)
(* short, medium and over-long words.                                      *)

TextChars == {"a", " ", ".", ",", ":", EmDash, "-", "'", "\""}

ShortTexts == UNION {[1..n -> TextChars] : n \in 0..MaxTextLen}

FixtureTexts ==
  { <<"e", "n", "d", ".">>,
    <<"p", "a", "u", "s", "e", ",">>,
    <<"q", "u", "o", "t", "e", ".", "\"">>,
    <<"U", ".", "S", ".", "\"">>,
    <<"'", "T", "i", "s">>,
    <<"'", "a", ".", "a">>,
    <<"a", " ", "b", "b", " ", "c", "c", "c", " ", "d", "d", "d", "d", " ", "e">> }

Repeat(c, n) == [i \in 1..n |-> c]

CoreTexts == {Repeat("a", n) : n \in 1..MaxCoreLen}

(* the word lengths of the streams the context lines are composed of; the  *)
(* longest is longer than every line                                       *)
ContextLengths == {1, 9, MaxLineChars + 1}

ContextTexts ==
  UNION {{Join([i \in 1..n |-> Repeat("a", lens[i])]) : lens \in [1..n -> ContextLengths]} :
           n \in 1..MaxContextTokens}

Texts == ShortTexts \cup FixtureTexts \cup CoreTexts \cup ContextTexts

(* the rates the session is mounted with *)
TextRates == {DefaultWpm, 2 * DefaultWpm}

(* the values the layout effect gives contextLineChars *)
LineChars == MinLineChars..MaxLineChars \cup {DefaultLineChars}

InitText ==
  /\ view = "reader"
  /\ activeBook = 1
  /\ \E text \in Texts : words = NormalizeWords(text) /\ op = Op("normalizeWords", text)
  /\ toc = <<>>
  /\ currentIndex = 0
  /\ isPlaying = FALSE
  /\ wpm \in TextRates
  /\ altReadingMode = FALSE
  /\ bookmarks = <<>>
  /\ isLoading = FALSE
  /\ timers = {}
  /\ timeoutRef = NullRef
  /\ hasCleanup = FALSE
  /\ queued = {}
  /\ storage = [b \in Library |->
                  IF b = activeBook /\ Len(words) > 0
                  THEN ProgressRecord(currentIndex, bookmarks) ELSE Missing]
  /\ settings = wpm
  /\ altSetting = FALSE
  /\ parses = {}
  /\ ended = [b \in Library |-> NoEnd]
  /\ sessions = 1

NextText ==
  \/ \E a \in SessionJumpAmounts : KeyJump(a)
  \/ TogglePlay

SpecText == InitText /\ [][NextText]_vars

----------------------------------------------------------------------------
(* Properties *)

InRange(i, len) == i \in 0..Max(0, len - 1)

(* C1: in every state of a reading session the reading position is an     *)
(* integer in [0, length-1], or 0 when the token stream is empty.          *)
C1_PositionInRange == view = "reader" => InRange(currentIndex, Len(words))

(* C2: at most one pacing timer is pending at any time. *)
C2_AtMostOneTimer == Cardinality(timers) <= 1

C2_Rescheduled ==
  /\ op.name = "jump"
  /\ isPlaying
  /\ Cardinality(timers) = 1
  /\ currentIndex > 0

(* a pending tick that may fire: of the mounted session, scheduled from    *)
(* the current position, rate and stream while playing                     *)
TickValid(t) ==
  /\ t.live
  /\ view = "reader"
  /\ isPlaying
  /\ wpm > 0
  /\ Len(words) > 0
  /\ t.idx = currentIndex
  /\ t.wpm = wpm
  /\ t.len = Len(words)

(* C3: no stale tick fires.  After every step each pending tick is valid   *)
(* (a pause, a rate change or a jump leaves no tick scheduled from the old *)
(* state), and a tick that fires does so while playing at a rate > 0 on a  *)
(* non-empty stream, from the position and rate it was scheduled with.     *)
C3_NoStaleTick ==
  [][ /\ \A t \in timers' : TickValid(t)'
      /\ op'.name = "tick" =>
           /\ isPlaying /\ wpm > 0 /\ Len(words) > 0
           /\ op'.arg = currentIndex
           /\ \E t \in timers : t \notin timers' /\ t.idx = currentIndex /\ t.wpm = wpm
      /\ (currentIndex' # currentIndex /\ (~isPlaying \/ wpm = 0)) => op'.name # "tick"
    ]_vars

C3_TickFired ==
  /\ op.name = "tick"
  /\ isPlaying
  /\ timers # {}
  /\ currentIndex = 1

(* C4: a tick that fires at the last valid index stops playback and leaves *)
(* the position there; no tick advances the position past length-1.       *)
C4_EndOfBookStop ==
  [][ op'.name = "tick" =>
        /\ currentIndex = Len(words) - 1 =>
             (~isPlaying' /\ currentIndex' = currentIndex /\ timers' = {})
        /\ currentIndex' # currentIndex => currentIndex' <= Len(words) - 1
    ]_vars

C4_StoppedAtEnd ==
  /\ op.name = "tick"
  /\ ~isPlaying
  /\ Len(words) > 1
  /\ currentIndex = Len(words) - 1
  /\ timers = {}

(* C5 as stated: play() while stopped starts playback only if rate > 0 and *)
(* the stream is non-empty, and otherwise changes neither the play state,  *)
(* nor the position, nor the timer.                                        *)
C5_PlayIsNoOpWhenIdle ==
  [][ (op'.name = "togglePlay" /\ ~isPlaying) =>
        /\ isPlaying' => (wpm > 0 /\ Len(words) > 0)
        /\ (wpm = 0 \/ Len(words) = 0) =>
             (isPlaying' = isPlaying /\ currentIndex' = currentIndex /\ timers' = timers)
    ]_vars

(* C5 amended: play() while the play flag is off always sets the flag; a   *)
(* tick is pending afterwards exactly if rate > 0 and the stream is        *)
(* non-empty; at rate 0 or on an empty stream the position and the timer   *)
(* are left unchanged.                                                     *)
C5_PlaySetsFlag ==
  [][ (op'.name = "togglePlay" /\ ~isPlaying) =>
        /\ isPlaying'
        /\ currentIndex' = currentIndex
        /\ timers' # {} <=> (wpm > 0 /\ Len(words) > 0)
        /\ (wpm = 0 \/ Len(words) = 0) => timers' = timers
    ]_vars

C5_PlayAtRateZero ==
  /\ op.name = "togglePlay"
  /\ isPlaying
  /\ wpm = 0
  /\ Len(words) > 0
  /\ timers = {}

(* clamp(x, 0, length-1), and 0 for a zero-length stream *)
Clamp(x, len) ==
  IF len = 0 THEN 0
  ELSE IF x < 0 THEN 0
  ELSE IF x > len - 1 THEN len - 1
  ELSE x

(* C6: jump(delta) sets the position to clamp(position + delta, 0,         *)
(* length-1), to 0 on an empty stream; on a stream of length 10,           *)
(* jump(-100) yields 0 and jump(+100) yields 9.                            *)
C6_JumpClamps ==
  [][ op'.name = "jump" =>
        /\ currentIndex' = Clamp(currentIndex + op'.arg, Len(words))
        /\ (Len(words) = 10 /\ op'.arg = -100) => currentIndex' = 0
        /\ (Len(words) = 10 /\ op'.arg = 100) => currentIndex' = 9
    ]_vars

C6_JumpedToEnd ==
  /\ op.name = "jump"
  /\ op.arg = 100
  /\ Len(words) = 10
  /\ currentIndex = 9

(* C7: restoring malformed or out-of-range persisted progress never aborts *)
(* opening the book, and a recovered index is clamped into range.          *)
C7_RestoreNeverAborts ==
  /\ op.name # "restoreAbort"
  /\ op.name = "parseDone" => InRange(currentIndex, Len(words))

(* C8: a session of a book that ended at position i with bookmarks B on a  *)
(* non-empty stream is followed by a session of that book that starts at   *)
(* position i with bookmarks B.                                            *)
C8_RoundTrip ==
  (op.name = "parseDone" /\ ended[activeBook].valid) =>
     /\ currentIndex = ended[activeBook].currentIndex
     /\ bookmarks = ended[activeBook].bookmarks

C8_Restored ==
  /\ op.name = "parseDone"
  /\ ended[activeBook].valid
  /\ currentIndex > 0
  /\ bookmarks # <<>>

(* C9: an extraction that yields zero tokens aborts the open-book          *)
(* operation for every source type: no session is committed on an empty    *)
(* stream.                                                                 *)
C9_EmptyExtractionAborts ==
  (view = "reader" /\ ~isLoading) => Len(words) > 0

StrictlyAscending(s) == \A i \in 1..(Len(s) - 1) : s[i] < s[i + 1]

(* C10: toggleBookmark removes the index if present and inserts it         *)
(* otherwise, leaves the other indices alone, keeps the list strictly      *)
(* ascending, and toggling the same index again restores the list.         *)
C10_ToggleBookmark ==
  [][ op'.name = "toggleBookmark" =>
        /\ Includes(bookmarks', currentIndex) <=> ~Includes(bookmarks, currentIndex)
        /\ \A j \in 0..NavLen :
             j # currentIndex => (Includes(bookmarks', j) <=> Includes(bookmarks, j))
        /\ StrictlyAscending(bookmarks')
        /\ ToggleBookmark(bookmarks', currentIndex) = bookmarks
    ]_vars

C10_InsertedInFront ==
  /\ op.name = "toggleBookmark"
  /\ Len(bookmarks) = 2
  /\ bookmarks[1] = op.arg

(* C11: in every state of a session every bookmark is a valid token index, *)
(* in [0, length): also on an empty stream and after progress has been     *)
(* restored.                                                               *)
C11_BookmarksValid ==
  view = "reader" => \A i \in 1..Len(bookmarks) : bookmarks[i] \in 0..(Len(words) - 1)

(* C12: teardown is total.  A session that is left leaves no timeout       *)
(* pending, so no tick of a session that is gone ever fires; a session     *)
(* that is opened starts stopped on an empty stream, at position 0, with   *)
(* no chapters and no bookmarks; and when its extraction completes, the    *)
(* stream and the chapter map are an extraction of its own book, the       *)
(* position and the bookmarks are what is persisted under its own book     *)
(* (or what the session itself set, if nothing is), and the play flag is   *)
(* the session's own.                                                      *)
C12_TeardownTotal ==
  [][ /\ view' = "library" => timers' = {}
      /\ \A t \in timers' : t.live
      /\ op'.name # "staleTick"
      /\ op'.name = "openBook" =>
           /\ words' = <<>> /\ toc' = <<>> /\ currentIndex' = 0
           /\ bookmarks' = <<>> /\ ~isPlaying' /\ timers' = {}
      /\ op'.name = "parseDone" =>
           /\ activeBook' = activeBook /\ op'.arg = activeBook
           /\ \E r \in ParseOutcomes(activeBook) :
                r.ok /\ words' = r.words /\ toc' = r.toc
           /\ currentIndex' = IF storage[activeBook].kind = "record"
                                   /\ storage[activeBook].currentIndex # 0
                              THEN storage[activeBook].currentIndex
                              ELSE currentIndex
           /\ bookmarks' = IF storage[activeBook].kind = "record"
                           THEN storage[activeBook].bookmarks
                           ELSE bookmarks
           /\ isPlaying' = isPlaying
    ]_vars

C12_LeftWhilePlaying ==
  /\ op.name = "onBack"
  /\ op.arg = 1
  /\ view = "library"
  /\ timers = {}
  /\ \E b \in Library : ended[b].valid /\ ended[b].currentIndex > 0

(* the spine section whose navigation entry carries the label *)
SectionOfLabel(label) == CHOOSE i \in 1..MaxSpine : ChapterLabel(i) = label

(* C13: every chapter entry of an extracted EPUB records the index of the  *)
(* first token of the section it was matched to: the index is in           *)
(* [0, length) of the final stream and the token there is the first token  *)
(* of that section, also when sections yield no tokens or fail to load.    *)
C13_ChapterIndexIsFirstToken ==
  (op.name = "parseDone" /\ activeBook \in EpubBooks) =>
     \A j \in 1..Len(toc) :
        /\ toc[j].index \in 0..(Len(words) - 1)
        /\ LET section == Spine(activeBook)[SectionOfLabel(toc[j].label)]
           IN /\ section.tokens # <<>>
              /\ words[toc[j].index + 1] = section.tokens[1]

RECURSIVE ConcatLoaded(_, _, _)
ConcatLoaded(spine, loaded, i) ==
  IF i > Len(spine) THEN <<>>
  ELSE (IF i \in loaded THEN spine[i].tokens ELSE <<>>) \o ConcatLoaded(spine, loaded, i + 1)

(* C15: when the extraction of an EPUB completes, the token stream is the  *)
(* concatenation, in spine order, of the token lists of exactly the        *)
(* sections that loaded: a section that fails is skipped and the sections  *)
(* after it are still extracted.                                           *)
C15_StreamIsLoadedSections ==
  [][ \A p \in parses : \A loaded \in SUBSET (1..MaxSpine) :
        ( /\ p.book \in EpubBooks
          /\ op'.name = "parseDone"
          /\ ParseDone(p, ParseEpub(Spine(p.book), loaded)) )
        => words' = ConcatLoaded(Spine(p.book), loaded, 1)
    ]_vars

C15_SkippedFailedSection ==
  /\ op.name = "parseDone"
  /\ activeBook \in EpubBooks
  /\ \A i \in 1..3 : Spine(activeBook)[i].tokens # <<>>
  /\ words = ConcatLoaded(Spine(activeBook), {1, 3}, 1)

(* C16: every token of the stream normalizeWords returns contains a letter *)
(* or a digit; a fragment made of punctuation only (a lone dash, an        *)
(* ellipsis) is discarded.                                                 *)
C16_TokensHaveAlnum == \A i \in 1..Len(words) : HasAlnum(words[i])

(* the last character of s that is no closing quote or bracket, "" if none *)
LastBeforeClosers(s) ==
  IF \E k \in 1..Len(s) : s[k] \notin CloserChars
  THEN s[CHOOSE k \in 1..Len(s) :
           s[k] \notin CloserChars /\ \A m \in (k + 1)..Len(s) : s[m] \in CloserChars]
  ELSE ""

(* the multiplier the claim gives a token, in tenths *)
ClaimedPause(token) ==
  LET c == LastBeforeClosers(SplitWord(token).trailing)
  IN IF c \in {".", "?", "!", Ellipsis} THEN 26
     ELSE IF c \in {":", ";"} THEN 19
     ELSE IF c = "," THEN 14
     ELSE IF \/ \E i \in 1..Len(token) : token[i] \in {EmDash, EnDash}
             \/ \E i \in 1..(Len(token) - 1) : token[i] = "-" /\ token[i + 1] = "-"
          THEN 16
     ELSE 10

(* a token whose trailing fragment ends in a period followed by a closing  *)
(* quote                                                                   *)
EndsInQuotedPeriod(token) ==
  LET trailing == SplitWord(token).trailing
  IN /\ Len(trailing) >= 2
     /\ trailing[Len(trailing)] \in {"\"", "'", RightDoubleQuote, RightSingleQuote}
     /\ trailing[Len(trailing) - 1] = "."

C18_DecomposeReassembles ==
  \A i \in 1..Len(words) :
    LET parts == SplitWord(words[i])
    IN /\ parts.leading \o parts.core \o parts.trailing = words[i]
       /\ parts.core # <<>>
       /\ (~HasAlnum(words[i]) \/ parts.core[1] \notin AlnumChars) =>
            (parts.core = words[i] /\ parts.leading = <<>> /\ parts.trailing = <<>>)

C18_ThreeFragments ==
  /\ op.name = "togglePlay"
  /\ Len(words) = 1
  /\ SplitWord(words[1]).leading # <<>>
  /\ SplitWord(words[1]).core # <<>>
  /\ SplitWord(words[1]).trailing # <<>>

(* C19: the ORP index of a core depends only on its length L: 0 for        *)
(* L <= 1, 1 for 2..5, 2 for 6..9, 3 for 10..13, 4 for L >= 14.            *)
C19_OrpStepFunction ==
  \A i \in 1..Len(words) :
    LET core == SplitWord(words[i]).core
        L == Len(core)
        orp == GetORPIndex(core)
    IN /\ L <= 1 => orp = 0
       /\ L \in 2..5 => orp = 1
       /\ L \in 6..9 => orp = 2
       /\ L \in 10..13 => orp = 3
       /\ L >= 14 => orp = 4

C19_LongCore ==
  /\ op.name = "togglePlay"
  /\ Len(words) = 1
  /\ Len(SplitWord(words[1]).core) = MaxCoreLen
  /\ GetORPIndex(SplitWord(words[1]).core) = 4

(* the lines of a composed context, before and after *)
AllLines(context) ==
  {context.before[i] : i \in 1..Len(context.before)}
    \cup {context.after[i] : i \in 1..Len(context.after)}

(* the line's text is at most limit characters long, or is a single token *)
LineFits(line, limit) ==
  Len(line.text) <= limit \/ \A k \in 1..Len(line.text) : line.text[k] # " "

ExampleTokens == <<<<"a">>, <<"b", "b">>, <<"c", "c", "c">>, <<"d", "d", "d", "d">>, <<"e">>>>

C21_ComposerTotal ==
  altReadingMode =>
    \A chars \in LineChars :
      /\ ~ReadsPastEnd(words, currentIndex)
      /\ DOMAIN ContextLines(altReadingMode, words, currentIndex, chars) = {"before", "after"}

(* the smallest chapter start after position p, NoStart when there is none *)
StartAfter(starts, p) ==
  IF \E i \in 1..Len(starts) : starts[i] > p
  THEN CHOOSE x \in {starts[i] : i \in 1..Len(starts)} :
         x > p /\ \A i \in 1..Len(starts) : starts[i] > p => x <= starts[i]
  ELSE NoStart

(* C22: when the chapter-start table has more than one entry and a tick    *)
(* fires at a position p < length-1 that is the last token of its chapter  *)
(* (p = s - 1 for the smallest chapter start s > p), the new position is s *)
C22_ChapterSkip ==
  [][\A t \in timers :
       LET starts == ChapterStarts(toc)
           s == StartAfter(starts, currentIndex)
       IN (/\ Tick(t)
           /\ t.live
           /\ Len(starts) > 1
           /\ currentIndex < Len(words) - 1
           /\ s # NoStart
           /\ currentIndex = s - 1)
          => currentIndex' = s]_vars

(* C22 witness: length 6, starts [0, 4], a tick at position 3 has moved    *)
(* the position to 4                                                       *)
C22_SkippedToFour ==
  /\ op = Op("tick", 3)
  /\ Len(words) = 6
  /\ ChapterStarts(toc) = <<0, 4>>
  /\ currentIndex = 4

(* C23: the scheduler with the chapter-skip branch behaves as one that     *)
(* always advances by one: a tick that fires at a position p < length-1    *)
(* sets the position to p + 1, whatever the chapter-start table, and a     *)
(* tick at the last position leaves it; so playback visits the indices up  *)
(* to length-1 one after the other.                                        *)
C23_TickAdvancesByOne ==
  [][\A t \in timers :
       (Tick(t) /\ t.live) =>
         currentIndex' = IF currentIndex < Len(words) - 1
                         THEN currentIndex + 1 ELSE currentIndex]_vars

(* C23 witness: a tick in the middle of a chapter of a table with several  *)
(* entries has advanced the position by one                                *)
C23_MidChapterStep ==
  /\ op.name = "tick"
  /\ Len(ChapterStarts(toc)) > 1
  /\ currentIndex = op.arg + 1
  /\ StartAfter(ChapterStarts(toc), op.arg) > currentIndex

Running == isPlaying /\ wpm > 0 /\ Len(words) > 0

StoppedAtEnd == ~isPlaying /\ currentIndex = Len(words) - 1

(* C24: from every state in which playback runs with a rate above 0 on a   *)
(* non-empty stream, when no command arrives and every pending timeout     *)
(* fires, playback eventually stops with the position at length-1          *)
C24_PlaybackTerminates == Running ~> StoppedAtEnd

(* C25: a jump to an index from a bookmark entry, a chapter entry or the   *)
(* progress bar leaves the position at clamp(index, 0, length-1), also     *)
(* when a tick's update is queued: the delta index - currentIndex is       *)
(* applied to the position it was computed from.                           *)
C25_JumpToLandsOnIndex ==
  [][/\ \A i \in 1..Len(bookmarks) :
          BookmarkJump(i) => currentIndex' = Clamp(bookmarks[i], Len(words))
     /\ \A i \in 1..Len(toc) :
          ChapterJump(i) => currentIndex' = Clamp(toc[i].index, Len(words))
     /\ \A target \in 0..Len(words) :
          ProgressClick(target) => currentIndex' = Clamp(target, Len(words))]_vars

(* the longest prefix and the longest suffix of a token that hold no       *)
(* alphanumeric character                                                  *)
NonAlnumPrefix(token) ==
  LET n == CHOOSE k \in 0..Len(token) :
             /\ \A i \in 1..k : token[i] \notin AlnumChars
             /\ k = Len(token) \/ token[k + 1] \in AlnumChars
  IN SubSeq(token, 1, n)

NonAlnumSuffix(token) ==
  LET n == CHOOSE k \in 0..Len(token) :
             /\ \A i \in (Len(token) - k + 1)..Len(token) : token[i] \notin AlnumChars
             /\ k = Len(token) \/ token[Len(token) - k] \in AlnumChars
  IN SubSeq(token, Len(token) - n + 1, Len(token))

Whole(token) == [leading |-> <<>>, core |-> token, trailing |-> <<>>]

(* C26 as stated: for every token with an alphanumeric character, leading  *)
(* is the longest non-alphanumeric prefix, trailing the longest            *)
(* non-alphanumeric suffix and core starts with an alphanumeric character; *)
(* a token without one is returned whole as core.                          *)
C26_MaximalPrefixAndSuffix ==
  \A k \in 1..Len(words) :
    LET token == words[k]
        parts == SplitWord(token)
    IN IF HasAlnum(token)
       THEN /\ parts.leading = NonAlnumPrefix(token)
            /\ parts.trailing = NonAlnumSuffix(token)
            /\ parts.core # <<>> /\ parts.core[1] \in AlnumChars
       ELSE parts = Whole(token)

(* a token in which only alphanumeric characters, apostrophes and hyphens  *)
(* stand between its first and its last alphanumeric character             *)
OneCoreRun(token) ==
  /\ HasAlnum(token)
  /\ \A i, j \in 1..Len(token) :
       (i < j /\ token[i] \in AlnumChars /\ token[j] \in AlnumChars) =>
         \A m \in i..j : token[m] \in CoreChars

(* C26 as amended: for a token with one core run, leading is the longest   *)
(* non-alphanumeric prefix, core starts with an alphanumeric character and *)
(* holds alphanumeric characters, apostrophes and hyphens only, among them *)
(* the apostrophes and hyphens that follow it directly, trailing is the    *)
(* rest and holds no alphanumeric character; every other token is returned *)
(* whole as core.                                                          *)
C26_CoreRunDecomposition ==
  \A k \in 1..Len(words) :
    LET token == words[k]
        parts == SplitWord(token)
    IN IF OneCoreRun(token)
       THEN /\ parts.leading = NonAlnumPrefix(token)
            /\ parts.leading \o parts.core \o parts.trailing = token
            /\ parts.core # <<>> /\ parts.core[1] \in AlnumChars
            /\ \A i \in 1..Len(parts.core) : parts.core[i] \in CoreChars
            /\ ~HasAlnum(parts.trailing)
            /\ parts.trailing = <<>> \/ parts.trailing[1] \notin CoreChars
       ELSE parts = Whole(token)

(* C26 witness: the stream holds a token with a leading fragment whose     *)
(* core takes the apostrophe that ends the token                           *)
C26_CoreTakesFinalApostrophe ==
  \E k \in 1..Len(words) :
    /\ OneCoreRun(words[k])
    /\ SplitWord(words[k]).leading # <<>>
    /\ SplitWord(words[k]).core[Len(SplitWord(words[k]).core)] = "'"
    /\ SplitWord(words[k]).trailing = <<>>

Tis == <<"'", "T", "i", "s">>

(* C27 as stated: an apostrophe that starts a token and is followed by an  *)
(* alphanumeric character belongs to core: 'Tis has an empty leading, the  *)
(* core 'Tis and an empty trailing.                                        *)
C27_InitialApostropheInCore ==
  \A k \in 1..Len(words) :
    LET token == words[k]
    IN (Len(token) >= 2 /\ token[1] = "'" /\ token[2] \in AlnumChars) =>
         /\ SplitWord(token).core[1] = "'"
         /\ token = Tis => SplitWord(token) = Whole(Tis)

(* C27 as amended: an apostrophe that starts a token with one core run     *)
(* belongs to leading, and core starts at the alphanumeric character after *)
(* it: 'Tis has the leading ', the core Tis and an empty trailing; a token *)
(* without one core run, such as 'a.a, is returned whole as core.          *)
C27_InitialApostropheInLeading ==
  \A k \in 1..Len(words) :
    LET token == words[k]
    IN (Len(token) >= 2 /\ token[1] = "'" /\ token[2] \in AlnumChars) =>
         /\ OneCoreRun(token) => SplitWord(token).leading = <<"'">>
         /\ OneCoreRun(token) => SplitWord(token).core[1] = token[2]
         /\ ~OneCoreRun(token) => SplitWord(token) = Whole(token)
         /\ token = Tis =>
              SplitWord(token) =
                [leading |-> <<"'">>, core |-> <<"T", "i", "s">>, trailing |-> <<>>]

(* C27 witness: the token 'Tis is on display while playback runs, with the *)
(* apostrophe as its leading fragment                                      *)
C27_TisRead ==
  /\ words = <<Tis>>
  /\ isPlaying
  /\ SplitWord(CurrentWord(words, currentIndex)).leading = <<"'">>

(* the tokens of a composed line, and of a list of lines top to bottom *)
LineTokens(line) == SplitSpaces(line.text)

RECURSIVE TokensOf(_)
TokensOf(lines) ==
  IF lines = <<>> THEN <<>> ELSE LineTokens(Head(lines)) \o TokensOf(Tail(lines))

(* C28: contextLines produces at most 3 lines before and at most 3 after   *)
(* the current token; fewer than 3 in a direction only when its lines      *)
(* reach the first token (before) or the last token (after); the 'before'  *)
(* lines are in reading order; the line of distance 1 is the one next to   *)
(* the current token and the distances 1, 2, 3 grow outward.               *)
C28_LinesAndDistances ==
  Len(words) > 0 =>
    \A chars \in LineChars :
      LET context == ContextLines(TRUE, words, currentIndex, chars)
          before == context.before
          after == context.after
      IN /\ Len(before) <= 3 /\ Len(after) <= 3
         /\ Len(before) < 3 => Len(TokensOf(before)) = currentIndex
         /\ Len(after) < 3 => Len(TokensOf(after)) = Len(words) - currentIndex - 1
         /\ \A k \in 1..Len(before) : before[k].distance = Len(before) + 1 - k
         /\ \A k \in 1..Len(after) : after[k].distance = k
         /\ before # <<>> =>
              LET nearest == LineTokens(before[Len(before)])
              IN nearest[Len(nearest)] = words[currentIndex]
         /\ after # <<>> => LineTokens(after[1])[1] = words[currentIndex + 2]
         /\ \A k \in 1..(Len(before) - 1) :
              \E i \in 1..currentIndex :
                /\ LineTokens(before[k])[Len(LineTokens(before[k]))] = words[i]
                /\ LineTokens(before[k + 1])[1] = words[i + 1]

(* C28 witness: after a jump three lines stand before the current token    *)
(* and leave out the first token, and fewer than three lines follow it to  *)
(* the last token                                                          *)
C28_ThreeBeforeCapped ==
  /\ op.name = "jump"
  /\ Len(words) > 0
  /\ LET context == ContextLines(TRUE, words, currentIndex, MinLineChars)
     IN /\ Len(context.before) = 3
        /\ Len(TokensOf(context.before)) < currentIndex
        /\ context.before[1].distance = 3
        /\ Len(context.after) < 3

(* C29: the context lines cover contiguous runs of the stream: the         *)
(* 'before' lines read top to bottom are the tokens k .. currentIndex-1    *)
(* for some k, the 'after' lines the tokens currentIndex+1 .. m for some   *)
(* m, and the current token's position is in neither.                      *)
C29_ContiguousRuns ==
  Len(words) > 0 =>
    \A chars \in LineChars :
      LET context == ContextLines(TRUE, words, currentIndex, chars)
          before == TokensOf(context.before)
          after == TokensOf(context.after)
      IN /\ Len(before) <= currentIndex
         /\ before = SubSeq(words, currentIndex - Len(before) + 1, currentIndex)
         /\ Len(after) <= Len(words) - currentIndex - 1
         /\ after = SubSeq(words, currentIndex + 2, currentIndex + 1 + Len(after))

(* C29 witness: after a jump the lines before the current token hold       *)
(* several tokens in two lines, and a line follows it                      *)
C29_TwoLinesBefore ==
  /\ op.name = "jump"
  /\ Len(words) > 0
  /\ LET context == ContextLines(TRUE, words, currentIndex, MinLineChars)
     IN /\ Len(context.before) = 2
        /\ Len(TokensOf(context.before)) = 3
        /\ Len(context.after) >= 1

(* C30: tokenization is stable under re-tokenization: the tokens of a text *)
(* joined with single spaces and normalized again are the same tokens, in  *)
(* the same number; and the tokens of a text that holds at least one       *)
(* alphanumeric character are not empty.                                   *)
C30_StableTokens ==
  /\ NormalizeWords(Join(words)) = words
  /\ Len(NormalizeWords(Join(words))) = Len(words)
  /\ op.name = "normalizeWords" =>
       /\ words = NormalizeWords(op.arg)
       /\ HasAlnum(op.arg) => words # <<>>

(* C30 witness: a text with a dash between two words has been normalized   *)
(* to three tokens                                                         *)
C30_DashSplit ==
  /\ op = Op("normalizeWords", <<"a", EmDash, "a">>)
  /\ words = <<<<"a">>, <<EmDash>>, <<"a">>>>

(* a step of the bookmark button *)
BookmarkToggled == op'.name = "toggleBookmark" /\ bookmarks' # bookmarks

(* C31: toggleBookmark changes only the bookmark set: the position, the    *)
(* play state, the rate, the token stream, the chapter-start table and the *)
(* pending tick, which is neither cancelled nor rescheduled, are left      *)
(* unchanged; where the update of a fired tick is rendered with it, the    *)
(* position and the play state are the ones that tick alone gives.         *)
C31_ToggleBookmarkFrame ==
  [][BookmarkToggled =>
       /\ UNCHANGED <<wpm, words, toc>>
       /\ ChapterStarts(toc') = ChapterStarts(toc)
       /\ queued = {} => UNCHANGED <<currentIndex, isPlaying, timers, timeoutRef, hasCleanup>>
       /\ queued # {} =>
            /\ currentIndex' = Prev.index
            /\ isPlaying' = (isPlaying /\ ~Prev.stop)
            /\ \A t \in timers' : t.live => t.idx = currentIndex']_vars

(* C31 witness: a bookmark was set during playback and the tick scheduled  *)
(* for the position is pending                                             *)
C31_BookmarkedWhilePlaying ==
  /\ op.name = "toggleBookmark"
  /\ isPlaying
  /\ bookmarks = <<currentIndex>>
  /\ currentIndex > 0
  /\ \E t \in timers : t.live /\ t.id = timeoutRef /\ t.idx = currentIndex

====
